---- MODULE Spec2Model ----
(***************************************************************************)
(* A model of the combat-probability engine of src/utils/dnd-combat-math.ts *)
(* (damage parser, d20 hit probability, negative-binomial estimator and     *)
(* Monte Carlo estimator).                                                  *)
(*                                                                          *)
(* Representation of values.                                                *)
(*  - A JavaScript string is a sequence of one-character strings.           *)
(*  - A JavaScript object is a record; an absent optional property is an    *)
(*    absent record field, so `x.f !== undefined` is "f" \in DOMAIN x.      *)
(*  - A number that is an integer wherever the code computes it is an     *)
(*    integer.  A number that may be fractional (an average, a probability, *)
(*    a moment) is an exact rational [num, den] in lowest terms with        *)
(*    den > 0; [num |-> 1, den |-> 0] stands for Infinity.  Floating-point  *)
(*    rounding is not modelled.  Math.sqrt(v) is kept symbolic.             *)
(***************************************************************************)
EXTENDS Integers, Sequences, FiniteSets, TLC

(***************************************************************************)
(* Bounds of the model.                                                     *)
(***************************************************************************)
\* longest damage text that is typed
MaxLen == 5
\* d20HitProb is tried on attack modifiers -MaxBonus..MaxBonus
MaxBonus == 3
\* d20HitProb is tried on armor classes -1..MaxArmorClass
MaxArmorClass == 26
\* the engines are tried on health -1..MaxHealth
MaxHealth == 3
\* timeToKillDistribution is tried on damage -1..MaxDamage
MaxDamage == 2
\* The model's stand-in for numSimulations = 100000: the trials of one call.
numSimulations == 2
\* The model's stand-in for maxAttacks = 200: the attacks of one trial.
maxAttacks == 4
\* The model's stand-in for the 1000 of `n - hitsNeeded < 1000`: the PMF terms
\* of one call.  Exact arithmetic on 20ths stays within TLC's integers up to
\* the 7th power of 20, which MaxHealth + TermCap must not exceed.
TermCap == 2
\* comb is tried on n in -1..MaxN and k in -1..MaxN + 1
MaxN == 8
\* the largest hit points entered in the simulator's form
MaxHitPoints == 2
\* the largest number of iterations entered in the simulator's form
MaxIterations == 2
\* the value at which the simulator's round and hit counters stop counting
RoundsCap == 3

VARIABLES
    \* ---- damage parser -------------------------------------------------
    damageInput,    \* the damage text handed to the parser
    parsePc,        \* "input" before, "parsed" after the parser has run
    isValid,        \* what isValidDamageInput returned
    damageResult,   \* what parseDamageInput returned
    \* ---- one call of d20HitProb or of an engine ------------------------
    fn,                     \* the function called
    attackModifier,         \* its arguments ...
    armorClass,
    damage,                 \* a number (timeToKillDistribution) or a descriptor
    health,
    useCriticalMechanics,   \* enforceNatRules for d20HitProb
    pc,                     \* where the call stands
    hitProbability,         \* locals of timeToKillDistribution ...
    hitsNeeded,
    pmf,
    n,
    tail,
    sim,                    \* locals of timeToKillWithCriticals ...
    remainingHealth,
    attacks,
    attackCounts,
    d20Roll,                \* locals of its loop body, 0 / FALSE outside it ...
    hits,
    isCritical,
    damageDealt,
    retained,               \* history: the trials that passed `attacks < maxAttacks`
    result,                 \* the value returned, Null before the call returns
    error,                  \* the message of the Error thrown, "" when none
    \* ---- the statistics component (D3Chart.vue) -------------------------
    \* its damageInput is the variable damageInput above, and the damageResult
    \* of its calculateDistribution the variable damageResult
    mounted,                \* onMounted has run
    focused,                \* the damage text box has the focus
    lastValidDamageInput,
    showDamageError,
    saveTimeout,            \* a debounced saveToStorage is pending
    storage,                \* localStorage: <<>>, or <<the damageInput saved>>
    \* ---- the chart (DnDCombatChart.vue) --------------------------------
    bars,                   \* the data joined to the bars, Null before a chart is drawn
    \* ---- the button-driven simulator (part_001) -------------------------
    characterStats,         \* [armorClass, hitPoints, attackBonus, damage] of the form
    iterations,             \* simulationParams.iterations
    isRunning,              \* runSimulation has started and not finished
    results,                \* the statistics of the last run, or Null
    simPc,                  \* "idle", "combat" (in simulateSingleCombat), "statistics"
    simResults,             \* the combats simulated so far in this run
    enemyHP,                \* simulateSingleCombat: the enemy's hit points
    rounds,                 \* simulateSingleCombat: rounds so far, RoundsCap meaning that or more
    combatHits,             \* simulateSingleCombat: hits so far, RoundsCap meaning that or more
    totalDamage,            \* simulateSingleCombat: damage dealt so far
    attackRoll,             \* simulateSingleCombat: the last attack roll, bonus included
    \* ---- one call of comb ----------------------------------------------
    combArgs,               \* [n, k] as passed to comb, or Null
    combPc,                 \* "idle", "call", "loop", "done"
    combK,                  \* comb's k after `k = Math.min(k, n - k)`
    combI,                  \* the turns of comb's loop taken so far
    combNum,                \* comb's num
    combDen,                \* comb's den
    combReturn              \* the value comb returned, or Null

parseVars == <<damageInput, parsePc, isValid, damageResult>>
argVars == <<fn, attackModifier, armorClass, damage, health, useCriticalMechanics>>
analyticVars == <<hitProbability, hitsNeeded, pmf, n, tail>>
attackVars == <<d20Roll, hits, isCritical, damageDealt>>
monteCarloVars == <<sim, remainingHealth, attacks, attackCounts, attackVars, retained>>
callVars == <<argVars, pc, analyticVars, monteCarloVars, result, error>>
componentVars ==
    <<mounted, focused, lastValidDamageInput, showDamageError, saveTimeout, storage>>
chartVars == <<bars>>
combatVars == <<enemyHP, rounds, combatHits, totalDamage, attackRoll>>
simulatorVars ==
    <<characterStats, iterations, isRunning, results, simPc, simResults, combatVars>>
combVars == <<combArgs, combPc, combK, combI, combNum, combDen, combReturn>>
uiVars == <<componentVars, chartVars, simulatorVars, combVars>>
vars == <<parseVars, callVars, uiVars>>

(***************************************************************************)
(* Characters.                                                              *)
(***************************************************************************)
\* the characters \d matches, in order of their value
DigitChars == <<"0", "1", "2", "3", "4", "5", "6", "7", "8", "9">>
\* the character class \d
Digit == {DigitChars[i] : i \in 1..10}
\* (some of) the character class \s, which is also what trim() strips
WhiteSpace == {" ", "\t", "\n"}
\* the characters the damage text is typed from
Alphabet == {"0", "1", "2", "d", "D", "+", "-", " ", "x"}
\* every text of at most n characters
Strings(len) == UNION {[1..k -> Alphabet] : k \in 0..len}

Min(S) == CHOOSE x \in S : \A y \in S : x <= y
Max(S) == CHOOSE x \in S : \A y \in S : x >= y
\* Math.max(a, b)
MathMax(a, b) == IF a >= b THEN a ELSE b
\* Math.min(a, b)
MathMin(a, b) == IF a <= b THEN a ELSE b

(***************************************************************************)
(* Exact rational arithmetic, standing for the code's number arithmetic.    *)
(***************************************************************************)
Abs(x) == IF x < 0 THEN -x ELSE x

\* the greatest common divisor of two naturals (0 when both are 0)
RECURSIVE GCD(_, _)
GCD(a, b) == IF b = 0 THEN a ELSE GCD(b, a % b)

Infinity == [num |-> 1, den |-> 0]

\* a/b in lowest terms, b # 0
Rat(a, b) ==
    LET g == GCD(Abs(a), Abs(b))
        sgn == IF b < 0 THEN -1 ELSE 1
    IN  [num |-> (sgn * a) \div g, den |-> (sgn * b) \div g]

Int2Rat(i) == [num |-> i, den |-> 1]

RatAdd(x, y) ==
    LET g == GCD(x.den, y.den)
    IN  Rat(x.num * (y.den \div g) + y.num * (x.den \div g), (x.den \div g) * y.den)

RatNeg(x) == [num |-> -x.num, den |-> x.den]

RatSub(x, y) == RatAdd(x, RatNeg(y))

RatMul(x, y) ==
    LET g1 == GCD(Abs(x.num), y.den)
        g2 == GCD(Abs(y.num), x.den)
    IN  IF x.num = 0 \/ y.num = 0 THEN Int2Rat(0)
        ELSE Rat((x.num \div g1) * (y.num \div g2), (x.den \div g2) * (y.den \div g1))

\* x / y for x > 0: Infinity when y is 0
RatDiv(x, y) ==
    IF y.num = 0 THEN Infinity
    ELSE RatMul(x, Rat(y.den, y.num))

\* x <= y, both finite
RatLeq(x, y) == x.num * y.den <= y.num * x.den

\* Math.max and Math.min on finite rationals
RatMax(x, y) == IF RatLeq(y, x) THEN x ELSE y
RatMin(x, y) == IF RatLeq(x, y) THEN x ELSE y

\* Math.pow(x, k) for an integer k >= 0; Math.pow(0, 0) is 1
RECURSIVE RatPow(_, _)
RatPow(x, k) == IF k = 0 THEN Int2Rat(1) ELSE RatMul(x, RatPow(x, k - 1))

\* mutant of Ceil: the quotient is rounded down
CeilAsFloor(x) == x.num \div x.den

\* Math.ceil of a finite rational
Ceil(x) == -((-x.num) \div x.den)

\* Math.sqrt(v), symbolic
MathSqrt(v) == [sqrtOf |-> v]

(***************************************************************************)
(* The regular-expression engine, as far as the two patterns need it.  The  *)
(* character classes that follow one another in the patterns are disjoint,  *)
(* so a greedy left-to-right scan decides the match without backtracking.   *)
(***************************************************************************)
\* Cls* from position i: the position after the longest run of Cls
RunEnd(s, i, Cls) ==
    LET stops == {j \in i..Len(s) : s[j] \notin Cls}
    IN  IF stops = {} THEN Len(s) + 1 ELSE Min(stops)

\* String.prototype.trim
Trim(s) ==
    LET keep == {j \in 1..Len(s) : s[j] \notin WhiteSpace}
    IN  IF keep = {} THEN <<>> ELSE SubSeq(s, Min(keep), Max(keep))

NoMatch == [matched |-> FALSE]

\* /^\s*(\d+)\s*$/
fixedRegex(s) ==
    LET a == RunEnd(s, 1, WhiteSpace)
        b == RunEnd(s, a, Digit)
        c == RunEnd(s, b, WhiteSpace)
    IN  IF b > a /\ c = Len(s) + 1
        THEN [matched |-> TRUE, g1 |-> SubSeq(s, a, b - 1)]
        ELSE NoMatch

\* /^\s*(\d+)\s*[dD]\s*(\d+)\s*(?:([+-])\s*(\d+))?\s*$/
\* g3 and g4 are the empty text when the optional group did not take part
diceRegex(s) ==
    LET len == Len(s)
        a == RunEnd(s, 1, WhiteSpace)
        b == RunEnd(s, a, Digit)
        c == RunEnd(s, b, WhiteSpace)
        hasD == c <= len /\ s[c] \in {"d", "D"}
        e == RunEnd(s, c + 1, WhiteSpace)
        f == RunEnd(s, e, Digit)
        g == RunEnd(s, f, WhiteSpace)
        hasSign == g <= len /\ s[g] \in {"+", "-"}
        h == RunEnd(s, g + 1, WhiteSpace)
        k == RunEnd(s, h, Digit)
        m == RunEnd(s, k, WhiteSpace)
    IN  IF ~(b > a /\ hasD /\ f > e) THEN NoMatch
        ELSE IF hasSign /\ k > h /\ m = len + 1
        THEN [matched |-> TRUE, g1 |-> SubSeq(s, a, b - 1), g2 |-> SubSeq(s, e, f - 1),
              g3 |-> <<s[g]>>, g4 |-> SubSeq(s, h, k - 1)]
        ELSE IF g = len + 1
        THEN [matched |-> TRUE, g1 |-> SubSeq(s, a, b - 1), g2 |-> SubSeq(s, e, f - 1),
              g3 |-> <<>>, g4 |-> <<>>]
        ELSE NoMatch

\* the value of the digit character c
DigitValue(c) == (CHOOSE i \in 1..10 : DigitChars[i] = c) - 1

\* parseInt on a run of digits: the decimal value, read left to right
RECURSIVE parseInt(_)
parseInt(t) ==
    IF Len(t) = 0 THEN 0
    ELSE 10 * parseInt(SubSeq(t, 1, Len(t) - 1)) + DigitValue(t[Len(t)])

(***************************************************************************)
(* isValidDamageInput and parseDamageInput.                                 *)
(***************************************************************************)
\* mutant of isValidDamageInput: only the dice pattern is tested
isValidDamageInputDiceOnly(damageText) ==
    LET cleaned == Trim(damageText)
    IN  diceRegex(cleaned).matched

\* The parameter is declared a string and the model hands over strings only,
\* so the typeof guard never returns.
isValidDamageInput(damageText) ==
    LET cleaned == Trim(damageText)
    IN  diceRegex(cleaned).matched \/ fixedRegex(cleaned).matched

\* mutant of DiceDescriptor: min and max are not clamped at 0
DiceDescriptorUnclamped(numDice, sides, actualModifier) ==
    [numDice |-> numDice,
     diceSides |-> sides,
     modifier |-> actualModifier,
     average |-> RatAdd(Rat(numDice * (sides + 1), 2), Int2Rat(actualModifier)),
     min |-> numDice + actualModifier,
     max |-> numDice * sides + actualModifier,
     criticalAverage |->
         RatMax(Int2Rat(0),
                RatAdd(Rat(numDice * 2 * (sides + 1), 2), Int2Rat(actualModifier))),
     criticalMin |-> MathMax(0, (numDice * 2) + actualModifier),
     criticalMax |-> MathMax(0, (numDice * 2 * sides) + actualModifier)]

\* mutant of DiceDescriptor: a critical hit doubles the modifier too
DiceDescriptorDoubledModifier(numDice, sides, actualModifier) ==
    [numDice |-> numDice,
     diceSides |-> sides,
     modifier |-> actualModifier,
     average |-> RatAdd(Rat(numDice * (sides + 1), 2), Int2Rat(actualModifier)),
     min |-> MathMax(0, numDice + actualModifier),
     max |-> MathMax(0, numDice * sides + actualModifier),
     criticalAverage |->
         RatMax(Int2Rat(0),
                RatAdd(Rat(numDice * 2 * (sides + 1), 2), Int2Rat(2 * actualModifier))),
     criticalMin |-> MathMax(0, 2 * (numDice + actualModifier)),
     criticalMax |-> MathMax(0, 2 * (numDice * sides + actualModifier))]

\* the descriptor of the dice form
DiceDescriptor(numDice, sides, actualModifier) ==
    LET min == numDice + actualModifier
        max == numDice * sides + actualModifier
        average == RatAdd(Rat(numDice * (sides + 1), 2), Int2Rat(actualModifier))
        criticalMin == (numDice * 2) + actualModifier
        criticalMax == (numDice * 2 * sides) + actualModifier
        criticalAverage == RatAdd(Rat(numDice * 2 * (sides + 1), 2), Int2Rat(actualModifier))
    IN  [numDice |-> numDice,
         diceSides |-> sides,
         modifier |-> actualModifier,
         average |-> average,
         min |-> MathMax(0, min),
         max |-> MathMax(0, max),
         criticalAverage |-> RatMax(Int2Rat(0), criticalAverage),
         criticalMin |-> MathMax(0, criticalMin),
         criticalMax |-> MathMax(0, criticalMax)]

\* the descriptor of the fixed form
FixedDescriptor(fixed) ==
    [fixedDamage |-> fixed,
     average |-> Int2Rat(fixed),
     min |-> fixed,
     max |-> fixed,
     criticalAverage |-> Int2Rat(fixed * 2),
     criticalMin |-> fixed * 2,
     criticalMax |-> fixed * 2]

\* the descriptor returned when neither pattern matches
FallbackDescriptor ==
    [fixedDamage |-> 1,
     average |-> Int2Rat(1),
     min |-> 1,
     max |-> 1,
     criticalAverage |-> Int2Rat(2),
     criticalMin |-> 2,
     criticalMax |-> 2]

parseDamageInput(input) ==
    LET cleaned == Trim(input)
        fixedMatch == fixedRegex(cleaned)
        diceMatch == diceRegex(cleaned)
    IN  IF fixedMatch.matched
        THEN FixedDescriptor(parseInt(fixedMatch.g1))
        ELSE IF diceMatch.matched
        THEN LET numDice == parseInt(diceMatch.g1)
                 sides == parseInt(diceMatch.g2)
                 operator == IF diceMatch.g3 = <<>> THEN "+" ELSE diceMatch.g3[1]
                 modifier == IF diceMatch.g4 # <<>> THEN parseInt(diceMatch.g4) ELSE 0
                 actualModifier == IF operator = "-" THEN -modifier ELSE modifier
             IN  DiceDescriptor(numDice, sides, actualModifier)
        ELSE FallbackDescriptor

(***************************************************************************)
(* The parser as a state machine: a damage text is handed over and both     *)
(* functions are applied to it.                                             *)
(***************************************************************************)
\* JavaScript's null, which no operation of the parser produces
Null == [null |-> TRUE]

\* the statistics component is not on the page
ComponentIdle ==
    /\ mounted = FALSE
    /\ focused = FALSE
    /\ lastValidDamageInput = <<>>
    /\ showDamageError = FALSE
    /\ saveTimeout = FALSE
    /\ storage = <<>>

\* no chart is drawn
ChartIdle == bars = Null

\* no combat is being simulated
CombatIdle ==
    /\ enemyHP = 0
    /\ rounds = 0
    /\ combatHits = 0
    /\ totalDamage = 0
    /\ attackRoll = 0

\* the simulator is not on the page
SimulatorIdle ==
    /\ characterStats = Null
    /\ iterations = 0
    /\ isRunning = FALSE
    /\ results = Null
    /\ simPc = "idle"
    /\ simResults = <<>>
    /\ CombatIdle

\* comb is not being called on its own
CombIdle ==
    /\ combArgs = Null
    /\ combPc = "idle"
    /\ combK = 0
    /\ combI = 0
    /\ combNum = 0
    /\ combDen = 0
    /\ combReturn = Null

\* no component is on the page
UiIdle == ComponentIdle /\ ChartIdle /\ SimulatorIdle /\ CombIdle

ParseInit ==
    /\ damageInput \in Strings(MaxLen)
    /\ parsePc = "input"
    /\ isValid = FALSE
    /\ damageResult = Null

\* no text is handed to the parser
ParseIdle ==
    /\ damageInput = <<>>
    /\ parsePc = "idle"
    /\ isValid = FALSE
    /\ damageResult = Null

ParseText ==
    /\ parsePc = "input"
    /\ parsePc' = "parsed"
    /\ isValid' = isValidDamageInput(damageInput)
    /\ damageResult' = parseDamageInput(damageInput)
    /\ UNCHANGED damageInput
    /\ UNCHANGED <<callVars, uiVars>>

ParseNext == ParseText

(***************************************************************************)
(* d20HitProb, comb, negBinomPMF.                                           *)
(***************************************************************************)
\* mutant of d20HitProb: 20 in place of 21
d20HitProbOffByOne(attackMod, ac, enforceNatRules) ==
    LET raw == Rat(20 + attackMod - ac, 20)
        p == RatMax(Int2Rat(0), RatMin(Int2Rat(1), raw))
    IN  IF enforceNatRules
        THEN RatMax(Rat(1, 20), RatMin(Rat(19, 20), p))
        ELSE p

d20HitProb(attackMod, ac, enforceNatRules) ==
    LET raw == Rat(21 + attackMod - ac, 20)
        p == RatMax(Int2Rat(0), RatMin(Int2Rat(1), raw))
    IN  IF enforceNatRules
        THEN RatMax(Rat(1, 20), RatMin(Rat(19, 20), p))
        ELSE p

\* mutant of gcd: nothing is divided out
gcdOne(a, b) == 1

\* gcd of the code: Euclid on |a|, |b|, and 1 in place of 0
RECURSIVE gcdLoop(_, _)
gcdLoop(a, b) == IF b = 0 THEN a ELSE gcdLoop(b, a % b)
gcd(a, b) ==
    LET r == gcdLoop(Abs(a), Abs(b))
    IN  IF r = 0 THEN 1 ELSE r

\* num and den of comb(m, k) after i turns of its loop
RECURSIVE combLoop(_, _, _)
combLoop(m, k, i) ==
    IF i = 0 THEN [num |-> 1, den |-> 1]
    ELSE LET prev == combLoop(m, k, i - 1)
             num == prev.num * (m - (k - i))
             den == prev.den * i
             g == gcd(num, den)
         IN  [num |-> num \div g, den |-> den \div g]

comb(m, k) ==
    IF k < 0 \/ k > m THEN Int2Rat(0)
    ELSE LET kk == MathMin(k, m - k)
             end == combLoop(m, kk, kk)
         IN  Rat(end.num, end.den)

negBinomPMF(m, r, p) ==
    IF m < r THEN Int2Rat(0)
    ELSE RatMul(RatMul(comb(m - 1, r - 1), RatPow(p, r)),
                RatPow(RatSub(Int2Rat(1), p), m - r))

(***************************************************************************)
(* rollDie and rollDamage: Math.random() is a free choice, so a roll is the *)
(* set of values it can give.                                               *)
(***************************************************************************)
\* Math.floor(Math.random() * sides) + 1
rollDie(sides) == 1..sides

\* the totals of k dice
RECURSIVE DiceTotals(_, _)
DiceTotals(k, sides) ==
    IF k = 0 THEN {0}
    ELSE {t + d : t \in DiceTotals(k - 1, sides), d \in rollDie(sides)}

rollDamage(dmg, critical) ==
    IF "fixedDamage" \in DOMAIN dmg
    THEN {IF critical THEN dmg.fixedDamage * 2 ELSE dmg.fixedDamage}
    ELSE IF "numDice" \in DOMAIN dmg /\ dmg.numDice # 0 /\ dmg.diceSides # 0
    THEN LET diceToRoll == IF critical THEN dmg.numDice * 2 ELSE dmg.numDice
         IN  {total + dmg.modifier : total \in DiceTotals(diceToRoll, dmg.diceSides)}
    ELSE {1}

(***************************************************************************)
(* One call.  The arguments are chosen when the call is made.               *)
(***************************************************************************)
\* the faces of the d20
D20 == 1..20

\* the attack modifiers and armor classes the engines are tried on: the hit
\* probability is 0 or 1/20, 6/20, 11/20, and 1 or 19/20
EngineModifiers == {0, 5}
EngineArmorClasses == {1, 15, 30}
\* the damage texts whose descriptors timeToKillWithCriticals is tried on
EngineDamageTexts ==
    {<<"0">>, <<"1", "0", "0">>, <<"1", "d", "2">>, <<"1", "d", "2", "-", "3">>,
     <<"0", "d", "2">>}

NoLocals ==
    /\ hitProbability = Int2Rat(0)
    /\ hitsNeeded = 0
    /\ pmf = <<>>
    /\ n = 0
    /\ tail = Int2Rat(0)
    /\ sim = 0
    /\ remainingHealth = 0
    /\ attacks = 0
    /\ attackCounts = <<>>
    /\ d20Roll = 0
    /\ hits = FALSE
    /\ isCritical = FALSE
    /\ damageDealt = 0
    /\ retained = 0

CallInit ==
    /\ \/ /\ fn = "d20HitProb"
          /\ attackModifier \in -MaxBonus..MaxBonus
          /\ armorClass \in -1..MaxArmorClass
          /\ damage = 0
          /\ health = 0
       \/ /\ fn = "timeToKillDistribution"
          /\ attackModifier \in EngineModifiers
          /\ armorClass \in EngineArmorClasses
          /\ damage \in -1..MaxDamage
          /\ health \in -1..MaxHealth
       \/ /\ fn = "timeToKillWithCriticals"
          /\ attackModifier \in EngineModifiers
          /\ armorClass \in EngineArmorClasses
          /\ damage \in {parseDamageInput(t) : t \in EngineDamageTexts}
          /\ health \in -1..MaxHealth
    /\ useCriticalMechanics \in BOOLEAN
    /\ pc = "call"
    /\ NoLocals
    /\ result = Null
    /\ error = ""

\* no call is made
CallIdle ==
    /\ fn = "none"
    /\ attackModifier = 0
    /\ armorClass = 0
    /\ damage = 0
    /\ health = 0
    /\ useCriticalMechanics = FALSE
    /\ pc = "idle"
    /\ NoLocals
    /\ result = Null
    /\ error = ""

\* d20HitProb(attackModifier, armorClass, enforceNatRules)
CallD20HitProb ==
    /\ pc = "call" /\ fn = "d20HitProb"
    /\ result' = d20HitProb(attackModifier, armorClass, useCriticalMechanics)
    /\ pc' = "done"
    /\ UNCHANGED <<argVars, analyticVars, monteCarloVars, error, parseVars, uiVars>>

(***************************************************************************)
(* timeToKillDistribution.                                                  *)
(***************************************************************************)
\* 1 / maxTailProb, maxTailProb = 1e-6
MaxTailProbInverse == 1000000

\* tail > maxTailProb, without a product that leaves TLC's integers
TailAboveMax(t) == t.num > t.den \div MaxTailProbInverse

\* the two guards, then the hit probability and the degenerate return, then
\* the start of the enumeration
CallDistribution ==
    /\ pc = "call" /\ fn = "timeToKillDistribution"
    /\ IF damage <= 0
       THEN /\ error' = "damage must be > 0"
            /\ pc' = "thrown"
            /\ UNCHANGED <<analyticVars, result>>
       ELSE IF health <= 0
       THEN /\ error' = "health must be > 0"
            /\ pc' = "thrown"
            /\ UNCHANGED <<analyticVars, result>>
       ELSE LET p == d20HitProb(attackModifier, armorClass, useCriticalMechanics)
            IN  IF p = Int2Rat(0)
                THEN /\ hitProbability' = p
                     /\ result' = [hitProbability |-> p,
                                   hitsNeeded |-> Infinity,
                                   pmf |-> <<>>,
                                   mean |-> Infinity,
                                   variance |-> Infinity,
                                   stdev |-> Infinity,
                                   roundsDistribution |-> <<>>]
                     /\ pc' = "done"
                     /\ UNCHANGED <<hitsNeeded, pmf, n, tail, error>>
                ELSE /\ hitProbability' = p
                     /\ hitsNeeded' = Ceil(Rat(health, damage))
                     /\ pmf' = <<>>
                     /\ n' = Ceil(Rat(health, damage))
                     /\ tail' = Int2Rat(1)
                     /\ pc' = "enumerate"
                     /\ UNCHANGED <<result, error>>
    /\ UNCHANGED <<argVars, monteCarloVars, parseVars, uiVars>>

\* mutant of EnumerateGuard: the loop runs until the tail is small enough
EnumerateGuardNoCap == TailAboveMax(tail)

\* mutant of EnumerateGuard: the tail test is turned around
EnumerateGuardTailBelow == ~TailAboveMax(tail) /\ n - hitsNeeded < TermCap

\* while (tail > maxTailProb && n - hitsNeeded < 1000)
EnumerateGuard == TailAboveMax(tail) /\ n - hitsNeeded < TermCap

\* one turn of the loop
EnumerateTerm ==
    /\ pc = "enumerate"
    /\ EnumerateGuard
    /\ LET prob == negBinomPMF(n, hitsNeeded, hitProbability)
       IN  /\ pmf' = Append(pmf, [attacks |-> n, prob |-> prob])
           /\ tail' = RatSub(tail, prob)
           /\ n' = n + 1
    /\ UNCHANGED <<argVars, pc, hitProbability, hitsNeeded, monteCarloVars,
                   result, error, parseVars, uiVars>>

\* after the loop: the moments and the return.  normalApprox, which needs
\* exp and pi, is left out of the result.
ReturnDistribution ==
    /\ pc = "enumerate"
    /\ ~EnumerateGuard
    /\ LET mean == RatDiv(Int2Rat(hitsNeeded), hitProbability)
           variance == RatDiv(RatMul(Int2Rat(hitsNeeded),
                                     RatSub(Int2Rat(1), hitProbability)),
                              RatMul(hitProbability, hitProbability))
       IN  result' = [hitProbability |-> hitProbability,
                      hitsNeeded |-> Int2Rat(hitsNeeded),
                      pmf |-> pmf,
                      mean |-> mean,
                      variance |-> variance,
                      stdev |-> MathSqrt(variance),
                      roundsDistribution |->
                          [i \in 1..Len(pmf) |-> RatMul(pmf[i].prob, Int2Rat(100))]]
    /\ pc' = "done"
    /\ UNCHANGED <<argVars, analyticVars, monteCarloVars, error, parseVars, uiVars>>

(***************************************************************************)
(* timeToKillWithCriticals.                                                 *)
(***************************************************************************)
\* mutant of CallWithCriticals: only a negative health is refused
CallWithCriticalsZeroHealth ==
    /\ pc = "call" /\ fn = "timeToKillWithCriticals"
    /\ IF health < 0
       THEN /\ error' = "health must be > 0"
            /\ pc' = "thrown"
            /\ UNCHANGED monteCarloVars
       ELSE /\ attackCounts' = [i \in 0..maxAttacks |-> 0]
            /\ sim' = 0
            /\ remainingHealth' = health
            /\ attacks' = 0
            /\ pc' = IF 0 < numSimulations THEN "trial" ELSE "summarize"
            /\ UNCHANGED <<attackVars, retained, error>>
    /\ UNCHANGED <<argVars, analyticVars, result, parseVars, uiVars>>

\* the guard, then the setup of the first trial
CallWithCriticals ==
    /\ pc = "call" /\ fn = "timeToKillWithCriticals"
    /\ IF health <= 0
       THEN /\ error' = "health must be > 0"
            /\ pc' = "thrown"
            /\ UNCHANGED monteCarloVars
       ELSE /\ attackCounts' = [i \in 0..maxAttacks |-> 0]
            /\ sim' = 0
            /\ remainingHealth' = health
            /\ attacks' = 0
            /\ pc' = IF 0 < numSimulations THEN "trial" ELSE "summarize"
            /\ UNCHANGED <<attackVars, retained, error>>
    /\ UNCHANGED <<argVars, analyticVars, result, parseVars, uiVars>>

\* mutant of AttackOutcome: a natural 1 is resolved by the threshold
AttackOutcomeNoNaturalOne(roll) ==
    LET attackTotal == roll + attackModifier
    IN  IF useCriticalMechanics /\ roll = 20
        THEN [hits |-> TRUE, isCritical |-> TRUE]
        ELSE [hits |-> attackTotal >= armorClass, isCritical |-> FALSE]

\* mutant of AttackOutcome: a hit needs the total to exceed the armor class
AttackOutcomeStrict(roll) ==
    LET attackTotal == roll + attackModifier
    IN  IF useCriticalMechanics
        THEN IF roll = 1 THEN [hits |-> FALSE, isCritical |-> FALSE]
             ELSE IF roll = 20 THEN [hits |-> TRUE, isCritical |-> TRUE]
             ELSE [hits |-> attackTotal > armorClass, isCritical |-> FALSE]
        ELSE [hits |-> attackTotal > armorClass, isCritical |-> FALSE]

\* mutant of AttackOutcome: a natural 20 is resolved by the threshold
AttackOutcomeNoNaturalTwenty(roll) ==
    LET attackTotal == roll + attackModifier
    IN  IF useCriticalMechanics /\ roll = 1
        THEN [hits |-> FALSE, isCritical |-> FALSE]
        ELSE [hits |-> attackTotal >= armorClass, isCritical |-> FALSE]

\* whether the d20 roll hits, and whether it is a critical hit
AttackOutcome(roll) ==
    LET attackTotal == roll + attackModifier
    IN  IF useCriticalMechanics
        THEN IF roll = 1 THEN [hits |-> FALSE, isCritical |-> FALSE]
             ELSE IF roll = 20 THEN [hits |-> TRUE, isCritical |-> TRUE]
             ELSE [hits |-> attackTotal >= armorClass, isCritical |-> FALSE]
        ELSE [hits |-> attackTotal >= armorClass, isCritical |-> FALSE]

\* mutant of TrialGuard: the loop runs until the target is dead
TrialGuardNoCap == remainingHealth > 0

\* while (remainingHealth > 0 && attacks < maxAttacks)
TrialGuard == remainingHealth > 0 /\ attacks < maxAttacks

\* one attack of the trial
Attack ==
    /\ pc = "trial"
    /\ TrialGuard
    /\ attacks' = attacks + 1
    /\ \E roll \in D20 :
          LET o == AttackOutcome(roll)
          IN  /\ d20Roll' = roll
              /\ hits' = o.hits
              /\ isCritical' = o.isCritical
              /\ IF o.hits
                 THEN \E dealt \in rollDamage(damage, o.isCritical) :
                          /\ damageDealt' = dealt
                          /\ remainingHealth' = remainingHealth - dealt
                 ELSE /\ damageDealt' = 0
                      /\ remainingHealth' = remainingHealth
    /\ UNCHANGED <<argVars, pc, analyticVars, sim, attackCounts, retained,
                   result, error, parseVars, uiVars>>

\* the end of a trial: it is counted if it stayed under the cap, and the next
\* trial, if there is one, is set up; the locals of the loop body are gone
EndTrial ==
    /\ pc = "trial"
    /\ ~TrialGuard
    /\ d20Roll' = 0 /\ hits' = FALSE /\ isCritical' = FALSE /\ damageDealt' = 0
    /\ IF attacks < maxAttacks
       THEN /\ attackCounts' = [attackCounts EXCEPT ![attacks] = @ + 1]
            /\ retained' = retained + 1
       ELSE UNCHANGED <<attackCounts, retained>>
    /\ sim' = sim + 1
    /\ IF sim + 1 < numSimulations
       THEN /\ remainingHealth' = health
            /\ attacks' = 0
            /\ pc' = "trial"
       ELSE /\ UNCHANGED <<remainingHealth, attacks>>
            /\ pc' = "summarize"
    /\ UNCHANGED <<argVars, analyticVars, result, error, parseVars, uiVars>>

\* mutant of TotalCount: the nominal number of trials
TotalCountNominal(counts, i) == numSimulations

\* totalCount: the sum of the positive counts of 1..maxAttacks
RECURSIVE TotalCount(_, _)
TotalCount(counts, i) ==
    IF i = 0 THEN 0
    ELSE TotalCount(counts, i - 1) + (IF counts[i] > 0 THEN counts[i] ELSE 0)

\* the PMF points of 1..i, in ascending order of attacks
RECURSIVE EmpiricalPmf(_, _, _)
EmpiricalPmf(counts, totalCount, i) ==
    IF i = 0 THEN <<>>
    ELSE IF counts[i] > 0
    THEN Append(EmpiricalPmf(counts, totalCount, i - 1),
                [attacks |-> i, prob |-> Rat(counts[i], totalCount)])
    ELSE EmpiricalPmf(counts, totalCount, i - 1)

\* mean += i * prob and variance += i * i * prob over the first k points
RECURSIVE RawMoment(_, _, _)
RawMoment(points, k, power) ==
    IF k = 0 THEN Int2Rat(0)
    ELSE LET i == points[k].attacks
             w == IF power = 1 THEN i ELSE i * i
         IN  RatAdd(RawMoment(points, k - 1, power), RatMul(Int2Rat(w), points[k].prob))

\* mutant of ModeScan: a later point of equal probability replaces the mode
RECURSIVE ModeScanLastMax(_, _)
ModeScanLastMax(points, k) ==
    IF k = 0 THEN [mode |-> 1, maxProb |-> Int2Rat(0)]
    ELSE LET prev == ModeScanLastMax(points, k - 1)
         IN  IF RatLeq(prev.maxProb, points[k].prob)
             THEN [mode |-> points[k].attacks, maxProb |-> points[k].prob]
             ELSE prev

\* the scan for the mode over the first k points
RECURSIVE ModeScan(_, _)
ModeScan(points, k) ==
    IF k = 0 THEN [mode |-> 1, maxProb |-> Int2Rat(0)]
    ELSE LET prev == ModeScan(points, k - 1)
         IN  IF ~RatLeq(points[k].prob, prev.maxProb)
             THEN [mode |-> points[k].attacks, maxProb |-> points[k].prob]
             ELSE prev

\* cumulativeProb after the first k points
RECURSIVE CumulativeProb(_, _)
CumulativeProb(points, k) ==
    IF k = 0 THEN Int2Rat(0)
    ELSE RatAdd(CumulativeProb(points, k - 1), points[k].prob)

\* mutant of MarkerScan: the threshold is measured from the top of the
\* distribution, cumulativeProb >= 1 - threshold
RECURSIVE MarkerScanFromTop(_, _, _)
MarkerScanFromTop(points, k, threshold) ==
    IF k = 0 THEN 1
    ELSE LET prev == MarkerScanFromTop(points, k - 1, threshold)
         IN  IF prev = 1 /\ RatLeq(RatSub(Int2Rat(1), threshold), CumulativeProb(points, k))
             THEN points[k].attacks
             ELSE prev

\* one marker of the percentile scan after the first k points: it is set when
\* it still is 1 and cumulativeProb >= threshold
RECURSIVE MarkerScan(_, _, _)
MarkerScan(points, k, threshold) ==
    IF k = 0 THEN 1
    ELSE LET prev == MarkerScan(points, k - 1, threshold)
         IN  IF prev = 1 /\ RatLeq(threshold, CumulativeProb(points, k))
             THEN points[k].attacks
             ELSE prev

\* everything after the trials: the PMF, the moments, mode, median and
\* percentiles, and the return
Summarize ==
    /\ pc = "summarize"
    /\ LET totalCount == TotalCount(attackCounts, maxAttacks)
           points == EmpiricalPmf(attackCounts, totalCount, maxAttacks)
           mean == RawMoment(points, Len(points), 1)
           variance == RatSub(RawMoment(points, Len(points), 2), RatMul(mean, mean))
           avgDamagePerHit ==
               RatAdd(damage.average,
                      IF useCriticalMechanics
                      THEN RatMul(Rat(5, 100), RatSub(damage.criticalAverage, damage.average))
                      ELSE Int2Rat(0))
       IN  result' = [hitProbability |->
                          d20HitProb(attackModifier, armorClass, useCriticalMechanics),
                      hitsNeeded |-> RatDiv(Int2Rat(health), avgDamagePerHit),
                      pmf |-> points,
                      mean |-> mean,
                      variance |-> variance,
                      stdev |-> MathSqrt(variance),
                      normalApprox |-> <<>>,
                      roundsDistribution |-> <<>>,
                      median |-> MarkerScan(points, Len(points), Rat(1, 2)),
                      mode |-> ModeScan(points, Len(points)).mode,
                      percentiles |->
                          [p25 |-> MarkerScan(points, Len(points), Rat(25, 100)),
                           p75 |-> MarkerScan(points, Len(points), Rat(75, 100)),
                           p90 |-> MarkerScan(points, Len(points), Rat(90, 100)),
                           p95 |-> MarkerScan(points, Len(points), Rat(95, 100))]]
    /\ pc' = "done"
    /\ UNCHANGED <<argVars, analyticVars, monteCarloVars, error, parseVars, uiVars>>

(***************************************************************************)
(* The specifications.                                                      *)
(***************************************************************************)
CallNext ==
    \/ CallD20HitProb
    \/ CallDistribution
    \/ EnumerateTerm
    \/ ReturnDistribution
    \/ CallWithCriticals
    \/ Attack
    \/ EndTrial
    \/ Summarize

\* the parser on every text
InitParse == ParseInit /\ CallIdle /\ UiIdle
SpecParse == InitParse /\ [][ParseNext]_vars

(***************************************************************************)
(* The chart of the statistics component.  The component hands the chart    *)
(* `results.pmf.map(p => p.prob * 100)` when the PMF has points; the chart  *)
(* joins its bars to the positive entries of that array, keyed and labelled *)
(* by their index in it.                                                    *)
(***************************************************************************)
\* results.pmf.map(p => p.prob * 100)
ChartProps(points) == [k \in 1..Len(points) |-> RatMul(points[k].prob, Int2Rat(100))]

\* props.data.map((count, rounds) => ({ rounds, count })), the indices of a
\* JavaScript array starting at 0
IndexedData(data) == [k \in 1..Len(data) |-> [rounds |-> k - 1, count |-> data[k]]]

\* .filter(d => d.count > 0 && d.rounds > 0)
chartData(data) ==
    SelectSeq(IndexedData(data), LAMBDA d : d.count.num > 0 /\ d.rounds > 0)

\* the chart is mounted on the PMF of a result, and updateChart joins the
\* bars to chartData
updateChart ==
    /\ pc = "done" /\ fn = "timeToKillWithCriticals"
    /\ Len(result.pmf) > 0
    /\ bars' = chartData(ChartProps(result.pmf))
    /\ pc' = "drawn"
    /\ UNCHANGED <<argVars, analyticVars, monteCarloVars, result, error, parseVars,
                   componentVars, simulatorVars, combVars>>

\* one call of d20HitProb or of an engine, and the chart of its result
Init == ParseIdle /\ CallInit /\ UiIdle
Next == CallNext \/ updateChart
Spec == Init /\ [][Next]_vars

\* one call of timeToKillDistribution.  The call runs on: a loop whose guard
\* holds takes its next turn, and a loop whose guard fails is left.  This is
\* WF_vars(NextDistribution) with ENABLED <<NextDistribution>>_vars written
\* out: a step is possible exactly until the call has returned or thrown.
InitDistribution == ParseIdle /\ CallInit /\ UiIdle /\ fn = "timeToKillDistribution"
NextDistribution == CallDistribution \/ EnumerateTerm \/ ReturnDistribution
DistributionRuns == pc \in {"call", "enumerate"}
SpecDistribution ==
    /\ InitDistribution
    /\ [][NextDistribution]_vars
    /\ ([]<>(~DistributionRuns) \/ []<><<NextDistribution>>_vars)

(***************************************************************************)
(* The statistics component: the damage text box, its last valid text and   *)
(* localStorage.  calculateDistribution parses lastValidDamageInput and      *)
(* hands the descriptor to timeToKillWithCriticals, whose run is Spec.      *)
(***************************************************************************)
\* ref('1d8+3')
DefaultDamageInput == <<"1", "d", "8", "+", "3">>

\* the texts typed into the damage text box
TypedTexts ==
    Strings(1) \cup {DefaultDamageInput, <<"1", "d", "2">>, <<"1", "d", "x">>,
                     <<"2", "d", "2", "-", "1">>}

\* isDamageValid, for the text in the box
isDamageValid(text) == parseDamageInput(text) # Null

\* calculateDistribution, as far as the parse: the descriptor handed to the
\* estimator, Null when there is none
calculateDistribution(text) ==
    IF parseDamageInput(text) = Null THEN Null ELSE parseDamageInput(text)

\* the setup of the component: the refs at their initial values
ComponentInit ==
    /\ damageInput = DefaultDamageInput
    /\ lastValidDamageInput = DefaultDamageInput
    /\ showDamageError = FALSE
    /\ mounted = FALSE
    /\ focused = FALSE
    /\ saveTimeout = FALSE
    /\ storage = <<>>
    /\ parsePc = "idle"
    /\ isValid = FALSE
    /\ damageResult = Null

\* onMounted: loadFromStorage, whose change of damageInput runs the watchers,
\* then calculateDistribution
Mount ==
    /\ ~mounted
    /\ mounted' = TRUE
    /\ IF storage # <<>> /\ storage[1] # <<>>
       THEN /\ damageInput' = storage[1]
            /\ lastValidDamageInput' = storage[1]
            /\ saveTimeout' = (storage[1] # damageInput)
            /\ showDamageError' =
                   IF storage[1] # damageInput /\ isDamageValid(storage[1])
                   THEN FALSE ELSE showDamageError
       ELSE UNCHANGED <<damageInput, lastValidDamageInput, saveTimeout, showDamageError>>
    /\ damageResult' = calculateDistribution(lastValidDamageInput')
    /\ UNCHANGED <<focused, storage, parsePc, isValid, callVars, chartVars, simulatorVars,
                   combVars>>

\* handleDamageFocus
FocusDamage ==
    /\ mounted /\ ~focused
    /\ focused' = TRUE
    /\ showDamageError' = FALSE
    /\ UNCHANGED <<mounted, lastValidDamageInput, saveTimeout, storage, parseVars, callVars, chartVars, simulatorVars,
                   combVars>>

\* a change of the text in the box: v-model sets damageInput, then the
\* watchers of damageInput and of lastValidDamageInput run
TypeDamage ==
    /\ mounted /\ focused
    /\ \E newValue \in TypedTexts \ {damageInput} :
          /\ damageInput' = newValue
          /\ IF isDamageValid(newValue)
             THEN /\ lastValidDamageInput' = newValue
                  /\ showDamageError' = FALSE
             ELSE UNCHANGED <<lastValidDamageInput, showDamageError>>
          /\ damageResult' =
                 IF lastValidDamageInput' # lastValidDamageInput
                 THEN calculateDistribution(lastValidDamageInput')
                 ELSE damageResult
    /\ saveTimeout' = TRUE
    /\ UNCHANGED <<mounted, focused, storage, parsePc, isValid, callVars, chartVars, simulatorVars,
                   combVars>>

\* handleDamageBlur
BlurDamage ==
    /\ mounted /\ focused
    /\ focused' = FALSE
    /\ showDamageError' = IF ~isDamageValid(damageInput) THEN TRUE ELSE showDamageError
    /\ UNCHANGED <<mounted, lastValidDamageInput, saveTimeout, storage, parseVars, callVars, chartVars, simulatorVars,
                   combVars>>

\* the debounced saveToStorage
SaveToStorage ==
    /\ mounted /\ saveTimeout
    /\ saveTimeout' = FALSE
    /\ storage' = <<damageInput>>
    /\ UNCHANGED <<mounted, focused, lastValidDamageInput, showDamageError, parseVars,
                   callVars, chartVars, simulatorVars,
                   combVars>>

\* the page is loaded again: the component is set up anew, localStorage stays
Reload ==
    /\ mounted
    /\ damageInput' = DefaultDamageInput
    /\ lastValidDamageInput' = DefaultDamageInput
    /\ showDamageError' = FALSE
    /\ mounted' = FALSE
    /\ focused' = FALSE
    /\ saveTimeout' = FALSE
    /\ damageResult' = Null
    /\ UNCHANGED <<storage, parsePc, isValid, callVars, chartVars, simulatorVars,
                   combVars>>

InitComponent == ComponentInit /\ CallIdle /\ ChartIdle /\ SimulatorIdle /\ CombIdle
NextComponent ==
    \/ Mount
    \/ FocusDamage
    \/ TypeDamage
    \/ BlurDamage
    \/ SaveToStorage
    \/ Reload
SpecComponent == InitComponent /\ [][NextComponent]_vars

(***************************************************************************)
(* The two damage grammars, stated on the text itself (not by scanning):    *)
(* what the text is once its white space is taken out, and that no white    *)
(* space stands inside a number.                                            *)
(***************************************************************************)
\* the text without its white space
Squeeze(s) == SelectSeq(s, LAMBDA c : c \notin WhiteSpace)

\* white space stands between two digits of s
SplitsANumber(s) ==
    \E i, k \in 1..Len(s) :
        /\ i + 1 < k
        /\ s[i] \in Digit /\ s[k] \in Digit
        /\ \A j \in (i + 1)..(k - 1) : s[j] \in WhiteSpace

\* 10 to the k
RECURSIVE PowerOfTen(_)
PowerOfTen(k) == IF k = 0 THEN 1 ELSE 10 * PowerOfTen(k - 1)

\* the sum of f over the finite set S
RECURSIVE SumOver(_, _)
SumOver(S, f) ==
    IF S = {} THEN 0
    ELSE LET x == CHOOSE x \in S : TRUE IN f[x] + SumOver(S \ {x}, f)

\* the number a run of digits t[i..j] writes, by place value
PlaceValue(t, i, j) ==
    SumOver(i..j, [q \in i..j |-> DigitValue(t[q]) * PowerOfTen(j - q)])

\* s is a fixed non-negative integer, white space around it
IsFixedText(s) ==
    /\ Len(Squeeze(s)) >= 1
    /\ \A i \in 1..Len(Squeeze(s)) : Squeeze(s)[i] \in Digit
    /\ ~SplitsANumber(s)

\* where the d and the sign of a squeezed text stand
DPositions(t) == {i \in 1..Len(t) : t[i] \in {"d", "D"}}
SignPositions(t) == {i \in 1..Len(t) : t[i] \in {"+", "-"}}

\* s is <digits> d|D <digits> [(+|-) <digits>], white space around the tokens
IsDiceText(s) ==
    LET t == Squeeze(s)
    IN  /\ ~SplitsANumber(s)
        /\ \A i \in 1..Len(t) : t[i] \in Digit \cup {"d", "D", "+", "-"}
        /\ Cardinality(DPositions(t)) = 1
        /\ Cardinality(SignPositions(t)) <= 1
        /\ \A c \in DPositions(t) :
              /\ 1 < c /\ c < Len(t)
              /\ \A g \in SignPositions(t) : c + 1 < g /\ g < Len(t)

\* the count N, the sides M and the signed modifier K a dice text writes
DiceCount(s) ==
    LET t == Squeeze(s) IN PlaceValue(t, 1, Max(DPositions(t)) - 1)
DiceSides(s) ==
    LET t == Squeeze(s)
        last == IF SignPositions(t) = {} THEN Len(t) ELSE Max(SignPositions(t)) - 1
    IN  PlaceValue(t, Max(DPositions(t)) + 1, last)
DiceModifier(s) ==
    LET t == Squeeze(s)
    IN  IF SignPositions(t) = {} THEN 0
        ELSE LET g == Max(SignPositions(t))
                 k == PlaceValue(t, g + 1, Len(t))
             IN  IF t[g] = "-" THEN -k ELSE k

\* C1: parseDamageInput signals invalid (returns null) for every text that
\* matches neither the fixed-integer grammar nor the dice grammar.
C1_InvalidTextIsRejected ==
    (parsePc = "parsed" /\ ~IsFixedText(damageInput) /\ ~IsDiceText(damageInput))
        => damageResult = Null

\* C2: isValidDamageInput returns true exactly for the texts that are a fixed
\* non-negative integer or <digits> d|D <digits> [(+|-) <digits>], with
\* optional white space around the tokens, and false for every other text.
C2_ValidExactlyOnGrammar ==
    parsePc = "parsed" =>
        (isValid <=> (IsFixedText(damageInput) \/ IsDiceText(damageInput)))

\* a dice text with an upper-case D and white space between its tokens was
\* accepted
C2_Witness ==
    /\ parsePc = "parsed" /\ isValid
    /\ \E i \in 1..Len(damageInput) : damageInput[i] = "D"
    /\ \E i \in 2..(Len(damageInput) - 1) : damageInput[i] = " "
    /\ damageInput[1] # " " /\ damageInput[Len(damageInput)] # " "

\* C3: every dice-form descriptor parseDamageInput produces has numDice >= 1
\* and diceSides >= 1.
C3_DiceCountAndSidesPositive ==
    (parsePc = "parsed" /\ "numDice" \in DOMAIN damageResult)
        => (damageResult.numDice >= 1 /\ damageResult.diceSides >= 1)

\* C4: for every accepted dice text with count N, sides M and signed modifier
\* K, parseDamageInput returns numDice = N, diceSides = M, modifier = K,
\* average = N*(M+1)/2 + K, min = max(0, N + K) and max = max(0, N*M + K).
C4_DiceFields ==
    (parsePc = "parsed" /\ IsDiceText(damageInput)) =>
        LET N == DiceCount(damageInput)
            M == DiceSides(damageInput)
            K == DiceModifier(damageInput)
        IN  /\ {"numDice", "diceSides", "modifier", "average", "min", "max"}
                   \subseteq DOMAIN damageResult
            /\ damageResult.numDice = N
            /\ damageResult.diceSides = M
            /\ damageResult.modifier = K
            /\ damageResult.average.den \in {1, 2}
            /\ damageResult.average.num * 2 =
                   (N * (M + 1) + 2 * K) * damageResult.average.den
            /\ damageResult.min = (IF N + K > 0 THEN N + K ELSE 0)
            /\ damageResult.max = (IF N * M + K > 0 THEN N * M + K ELSE 0)

\* a dice text with a negative modifier was parsed: its average is fractional
\* and negative, its minimum is clamped to 0
C4_Witness ==
    /\ parsePc = "parsed" /\ IsDiceText(damageInput)
    /\ DiceModifier(damageInput) < 0
    /\ DiceCount(damageInput) + DiceModifier(damageInput) < 0
    /\ damageResult.min = 0
    /\ damageResult.average.den = 2
    /\ damageResult.average.num < 0

\* C5: the critical values double only the random part: for a dice form
\* (N, M, K) criticalMin = max(0, 2N + K), criticalMax = max(0, 2N*M + K) and
\* criticalAverage = max(0, N*(M+1) + K); for a fixed form d,
\* average = min = max = d and criticalAverage = criticalMin = criticalMax = 2d.
C5_CriticalFields ==
    /\ (parsePc = "parsed" /\ IsDiceText(damageInput)) =>
          LET N == DiceCount(damageInput)
              M == DiceSides(damageInput)
              K == DiceModifier(damageInput)
              Clamp0(x) == IF x > 0 THEN x ELSE 0
          IN  /\ damageResult.criticalMin = Clamp0(2 * N + K)
              /\ damageResult.criticalMax = Clamp0(2 * N * M + K)
              /\ damageResult.criticalAverage = Int2Rat(Clamp0(N * (M + 1) + K))
    /\ (parsePc = "parsed" /\ IsFixedText(damageInput)) =>
          LET d == PlaceValue(Squeeze(damageInput), 1, Len(Squeeze(damageInput)))
          IN  /\ "fixedDamage" \in DOMAIN damageResult
              /\ damageResult.fixedDamage = d
              /\ damageResult.average = Int2Rat(d)
              /\ damageResult.min = d /\ damageResult.max = d
              /\ damageResult.criticalAverage = Int2Rat(2 * d)
              /\ damageResult.criticalMin = 2 * d
              /\ damageResult.criticalMax = 2 * d

\* a dice text with a positive modifier was parsed, and its critical values
\* are not twice the plain ones
C5_Witness ==
    /\ parsePc = "parsed" /\ IsDiceText(damageInput)
    /\ DiceModifier(damageInput) > 0
    /\ DiceCount(damageInput) > 0 /\ DiceSides(damageInput) > 1
    /\ damageResult.criticalMax = 2 * damageResult.max - DiceModifier(damageInput)
    /\ damageResult.criticalMax > damageResult.criticalMin

\* C6: without natural-roll rules d20HitProb is clamp((21 + attackBonus -
\* armorClass)/20, 0, 1), which lies in [0, 1]; with the rules it is that value
\* clamped into [1/20, 19/20], so never 0 and never 1.  Stated in twentieths.
C6_HitProbClamped ==
    (fn = "d20HitProb" /\ pc = "done") =>
        LET Clamp(x, lo, hi) == IF x < lo THEN lo ELSE IF x > hi THEN hi ELSE x
            twentieths == Clamp(21 + attackModifier - armorClass, 0, 20)
        IN  /\ result.den > 0
            /\ ~useCriticalMechanics =>
                  /\ result.num * 20 = twentieths * result.den
                  /\ 0 <= result.num /\ result.num <= result.den
            /\ useCriticalMechanics =>
                  /\ result.num * 20 = Clamp(twentieths, 1, 19) * result.den
                  /\ 0 < result.num /\ result.num < result.den

\* with the rules enforced, an attack that cannot miss on the raw computation
\* was given 19/20
C6_Witness ==
    /\ fn = "d20HitProb" /\ pc = "done"
    /\ useCriticalMechanics
    /\ 21 + attackModifier - armorClass > 20
    /\ result = [num |-> 19, den |-> 20]

\* C7: timeToKillWithCriticals throws when health <= 0, and
\* timeToKillDistribution throws when health <= 0 or damage <= 0, before any
\* trial is run or any PMF term is computed, and no result is returned.
C7_FailFast ==
    /\ (fn = "timeToKillWithCriticals" /\ health <= 0 /\ pc # "call") =>
          /\ pc = "thrown" /\ error = "health must be > 0"
          /\ result = Null
          /\ sim = 0 /\ attacks = 0 /\ retained = 0 /\ attackCounts = <<>>
    /\ (fn = "timeToKillDistribution" /\ (health <= 0 \/ damage <= 0) /\ pc # "call") =>
          /\ pc = "thrown" /\ error \in {"health must be > 0", "damage must be > 0"}
          /\ result = Null
          /\ pmf = <<>> /\ n = 0
    /\ pc = "thrown" => result = Null

\* timeToKillWithCriticals has thrown
C7_Witness ==
    /\ fn = "timeToKillWithCriticals" /\ health <= 0
    /\ pc = "thrown" /\ error = "health must be > 0"

\* C8: in timeToKillDistribution a hit probability of exactly 0 (possible
\* only with the natural-roll rules disabled) gives infinite mean, variance
\* and stdev and an empty PMF, and no error; a non-zero hit probability gives
\* a non-empty PMF.
C8_DegenerateOrNonEmpty ==
    (fn = "timeToKillDistribution" /\ pc = "done") =>
        /\ error = ""
        /\ result.hitProbability.num = 0 =>
              /\ ~useCriticalMechanics
              /\ result.mean = Infinity
              /\ result.variance = Infinity
              /\ result.stdev = Infinity
              /\ result.pmf = <<>>
        /\ result.hitProbability.num # 0 => Len(result.pmf) >= 1

\* the degenerate result was returned
C8_Witness ==
    /\ fn = "timeToKillDistribution" /\ pc = "done"
    /\ result.hitProbability.num = 0
    /\ result.mean = Infinity /\ result.pmf = <<>>

\* C9: in timeToKillDistribution with a non-zero hit probability, hitsNeeded
\* is ceiling(health / damage) and the attack counts of the PMF are the
\* consecutive integers hitsNeeded, hitsNeeded + 1, ... in ascending order.
C9_ConsecutiveFromHitsNeeded ==
    (fn = "timeToKillDistribution" /\ pc \in {"enumerate", "done"}
         /\ hitProbability.num # 0) =>
        /\ hitsNeeded * damage >= health
        /\ (hitsNeeded - 1) * damage < health
        /\ \A i \in 1..Len(pmf) : pmf[i].attacks = hitsNeeded + i - 1
        /\ pc = "done" =>
              /\ result.hitsNeeded = [num |-> hitsNeeded, den |-> 1]
              /\ result.pmf = pmf

\* a PMF of several points was returned where health is no multiple of damage
C9_Witness ==
    /\ fn = "timeToKillDistribution" /\ pc = "done"
    /\ hitProbability.num # 0
    /\ health % damage # 0 /\ hitsNeeded >= 2
    /\ Len(result.pmf) >= 2

\* the sum of the probabilities of the first k points
RECURSIVE PmfMass(_, _)
PmfMass(points, k) ==
    IF k = 0 THEN [num |-> 0, den |-> 1]
    ELSE LET rest == PmfMass(points, k - 1)
             q == points[k].prob
         IN  Rat(rest.num * q.den + q.num * rest.den, rest.den * q.den)

\* the returned PMF lists, in ascending order, exactly the attack counts some
\* retained trial ended on, each with its frequency over the retained trials
PmfIsFrequencies ==
    /\ \A i \in 1..Len(result.pmf) :
          /\ result.pmf[i].attacks \in 1..maxAttacks
          /\ attackCounts[result.pmf[i].attacks] > 0
          /\ result.pmf[i].prob.num * retained =
                 attackCounts[result.pmf[i].attacks] * result.pmf[i].prob.den
    /\ \A i, j \in 1..Len(result.pmf) :
          i < j => result.pmf[i].attacks < result.pmf[j].attacks
    /\ \A a \in 1..maxAttacks :
          attackCounts[a] > 0 => \E i \in 1..Len(result.pmf) : result.pmf[i].attacks = a

\* C10 as claimed: the PMF is normalized over the retained trials and its
\* probabilities sum to 1, whatever number of trials were discarded.
C10_SumsToOneAlways ==
    (fn = "timeToKillWithCriticals" /\ pc = "done") =>
        /\ PmfIsFrequencies
        /\ PmfMass(result.pmf, Len(result.pmf)) = [num |-> 1, den |-> 1]

\* C10 as amended: the PMF is normalized over the retained trials; its
\* probabilities sum to 1 when at least one trial was retained, and it is
\* empty when every trial was discarded.
C10_SumsToOneIfRetained ==
    (fn = "timeToKillWithCriticals" /\ pc = "done") =>
        /\ PmfIsFrequencies
        /\ retained > 0 =>
              PmfMass(result.pmf, Len(result.pmf)) = [num |-> 1, den |-> 1]
        /\ retained = 0 => result.pmf = <<>>

\* a PMF was returned after a call that retained a trial and discarded one
C10_Witness ==
    /\ fn = "timeToKillWithCriticals" /\ pc = "done"
    /\ retained > 0 /\ retained < numSimulations
    /\ Len(result.pmf) >= 1

(***************************************************************************)
(* The statistics of timeToKillWithCriticals.                               *)
(***************************************************************************)
\* timeToKillWithCriticals has returned
WithCriticalsReturned == fn = "timeToKillWithCriticals" /\ pc = "done"

\* C11: the percentile markers of every result of timeToKillWithCriticals are
\* ordered, p25 <= median <= p75 <= p90 <= p95.
C11_MarkersOrdered ==
    WithCriticalsReturned =>
        /\ result.percentiles.p25 <= result.median
        /\ result.median <= result.percentiles.p75
        /\ result.percentiles.p75 <= result.percentiles.p90
        /\ result.percentiles.p90 <= result.percentiles.p95

\* a result whose PMF starts above one attack and whose markers are not all
\* the same
C11_Witness ==
    /\ WithCriticalsReturned
    /\ Len(result.pmf) >= 2
    /\ result.pmf[1].attacks > 1
    /\ result.percentiles.p25 < result.percentiles.p95

\* the points of a PMF at which the mass of the points so far reaches threshold
PointsReaching(points, threshold) ==
    {i \in 1..Len(points) : RatLeq(threshold, PmfMass(points, i))}

\* the smallest attack count of an ascending PMF at which the cumulative
\* probability reaches threshold, and 1 when it never does
FirstReaching(points, threshold) ==
    IF PointsReaching(points, threshold) = {} THEN 1
    ELSE points[CHOOSE i \in PointsReaching(points, threshold) :
                    \A j \in PointsReaching(points, threshold) : i <= j].attacks

\* C12: each of the five markers is the first attack count of the PMF at which
\* the cumulative probability reaches its threshold, also when that attack
\* count is 1 and further points follow; it is 1 by fallback only when the
\* threshold is never reached.
C12_MarkersAreFirstReaching ==
    WithCriticalsReturned =>
        /\ result.median = FirstReaching(result.pmf, Rat(1, 2))
        /\ result.percentiles.p25 = FirstReaching(result.pmf, Rat(25, 100))
        /\ result.percentiles.p75 = FirstReaching(result.pmf, Rat(75, 100))
        /\ result.percentiles.p90 = FirstReaching(result.pmf, Rat(90, 100))
        /\ result.percentiles.p95 = FirstReaching(result.pmf, Rat(95, 100))

OneHitKillSetup ==
    /\ fn = "timeToKillWithCriticals"
    /\ health = 1
    /\ damage = parseDamageInput(<<"1", "0", "0">>)
    /\ armorClass = 1
    /\ attackModifier >= 0

\* the faces of the d20 on which the next attack ends the trial
KillingFaces ==
    {roll \in D20 :
        /\ AttackOutcome(roll).hits
        /\ \A dealt \in rollDamage(damage, AttackOutcome(roll).isCritical) :
              remainingHealth - dealt <= 0}

\* C14 as claimed: in the one-hit-kill setup at least 99% of the equally
\* likely d20 outcomes of the first attack end the trial, with the critical
\* mechanics enabled or disabled.
C14_OneHitKillNinetyNine ==
    (OneHitKillSetup /\ pc = "trial" /\ attacks = 0) =>
        Cardinality(KillingFaces) * 100 >= 99 * Cardinality(D20)

\* C14 as amended: in the one-hit-kill setup every d20 outcome of the first
\* attack ends the trial when the critical mechanics are disabled, and the
\* PMF is the single point 1; when they are enabled a natural 1 misses, so 19
\* of the 20 outcomes (95%) end the trial on the first attack.
C14_OneHitKillByMechanics ==
    /\ (OneHitKillSetup /\ pc = "trial" /\ attacks = 0) =>
          Cardinality(KillingFaces) = IF useCriticalMechanics THEN 19 ELSE 20
    /\ (OneHitKillSetup /\ pc = "trial" /\ attacks = 1) =>
          (remainingHealth <= 0 <=> ~(useCriticalMechanics /\ d20Roll = 1))
    /\ (OneHitKillSetup /\ pc = "done" /\ ~useCriticalMechanics) =>
          result.pmf = <<[attacks |-> 1, prob |-> Int2Rat(1)]>>

\* the first attack of a trial of the one-hit-kill setup rolled a natural 1
\* under the critical mechanics and left the target alive
C14_Witness ==
    /\ OneHitKillSetup /\ useCriticalMechanics
    /\ pc = "trial" /\ attacks = 1
    /\ d20Roll = 1 /\ remainingHealth > 0

\* an attack of a trial has just been resolved
AttackResolved == pc = "trial" /\ d20Roll # 0

\* C15: with the critical mechanics a roll of 1 misses whatever the bonus and
\* armor class, a roll of 20 hits whatever they are and is the only roll
\* flagged critical, and a roll of 2..19 hits exactly when roll + attackBonus
\* >= armorClass; without them every roll of 1..20 hits exactly when roll +
\* attackBonus >= armorClass and no hit is critical.  A miss deals no damage.
C15_AttackResolution ==
    AttackResolved =>
        /\ d20Roll \in 1..20
        /\ useCriticalMechanics =>
              /\ d20Roll = 1 => ~hits
              /\ d20Roll = 20 => hits
              /\ isCritical <=> d20Roll = 20
              /\ d20Roll \in 2..19 => (hits <=> d20Roll + attackModifier >= armorClass)
        /\ ~useCriticalMechanics =>
              /\ hits <=> d20Roll + attackModifier >= armorClass
              /\ ~isCritical
        /\ ~hits => damageDealt = 0

\* under the critical mechanics a natural 1 missed an armor class the total
\* reaches, and a natural 20 hit an armor class the total does not reach
C15_Witness ==
    /\ AttackResolved /\ useCriticalMechanics
    /\ \/ d20Roll = 1 /\ ~hits /\ d20Roll + attackModifier >= armorClass
       \/ d20Roll = 20 /\ hits /\ isCritical /\ d20Roll + attackModifier < armorClass

\* the sums of count draws, each between 1 and sides
DrawSums(count, sides) ==
    IF count = 0 THEN {0}
    ELSE IF sides < 1 THEN {}
    ELSE count..(count * sides)

\* the damage of one hit as claimed: for a dice descriptor (N, M, K) the sum of
\* N draws plus K, of 2N draws plus K on a critical hit; for a fixed descriptor
\* d, d and 2d on a critical hit
ClaimedDamage(dmg, critical) ==
    IF "fixedDamage" \in DOMAIN dmg
    THEN {IF critical THEN 2 * dmg.fixedDamage ELSE dmg.fixedDamage}
    ELSE {s + dmg.modifier :
              s \in DrawSums(IF critical THEN 2 * dmg.numDice ELSE dmg.numDice,
                             dmg.diceSides)}

\* C16: the damage of one hit is, for a dice descriptor (N, M, K), the sum of N
\* draws from 1..M plus K, and of 2N draws plus K once on a critical hit; for a
\* fixed descriptor d it is d, and 2d on a critical hit; for every descriptor
\* the parser produces.
C16_DamageOfOneHit ==
    (AttackResolved /\ hits) => damageDealt \in ClaimedDamage(damage, isCritical)

\* C17: a hit never deals negative damage: for every descriptor the parser
\* produces, the remaining health never increases from one attack of a trial
\* to the next.
C17_HealthNeverIncreases ==
    [][(pc = "trial" /\ attacks' = attacks + 1) =>
           (damageDealt' >= 0 /\ remainingHealth' <= remainingHealth)]_vars

\* C18: a trial never makes more than maxAttacks attacks, and a trial that
\* reaches the cap with the target alive ends there, adds to no bucket of
\* attackCounts, the bucket of maxAttacks included, and is not among the
\* retained trials.
C18_CappedTrialsDiscarded ==
    /\ [](attacks <= maxAttacks)
    /\ [][(pc = "trial" /\ attacks = maxAttacks /\ remainingHealth > 0) =>
             /\ sim' = sim + 1
             /\ attackCounts' = attackCounts
             /\ retained' = retained]_vars

\* a trial has made maxAttacks attacks and the target is alive
C18_Witness ==
    /\ pc = "trial"
    /\ attacks = maxAttacks
    /\ remainingHealth > 0
    /\ d20Roll # 0

\* C19: a trial is retained exactly when the target is killed within the cap:
\* a trial whose damage first reaches the hit points on attack k, for any k of
\* 1..maxAttacks, maxAttacks included, is counted at attack count k.
C19_KilledWithinCapIsCounted ==
    [][(pc = "trial" /\ remainingHealth <= 0 /\ sim' = sim + 1) =>
           /\ attacks \in 1..maxAttacks
           /\ attackCounts' = [attackCounts EXCEPT ![attacks] = @ + 1]
           /\ retained' = retained + 1]_vars

\* the faces of the d20 that the attack rule of the simulation counts as a hit
HittingFaces == {roll \in D20 : AttackOutcome(roll).hits}

\* C20: the two estimators agree on the chance of a single attack to hit: for
\* every attack bonus, armor class and setting of the flag, the number of d20
\* faces the simulation's attack rule counts as a hit is 20 times
\* d20HitProb(attackBonus, armorClass, flag).
C20_EstimatorsAgree ==
    /\ (fn = "d20HitProb" /\ pc = "done") =>
          Cardinality(HittingFaces) * result.den = 20 * result.num
    /\ WithCriticalsReturned =>
          Cardinality(HittingFaces) * result.hitProbability.den =
              20 * result.hitProbability.num

\* with the rules enforced and an armor class no total reaches, the natural 20
\* is the one hitting face and d20HitProb returned 1/20
C20_Witness ==
    /\ fn = "d20HitProb" /\ pc = "done"
    /\ useCriticalMechanics
    /\ 20 + attackModifier < armorClass
    /\ HittingFaces = {20}
    /\ result = [num |-> 1, den |-> 20]

(***************************************************************************)
(* The enumeration of timeToKillDistribution.                               *)
(***************************************************************************)
\* C21: the enumeration of timeToKillDistribution always terminates: it emits
\* the points hitsNeeded, hitsNeeded + 1, ... and stops as soon as the
\* remaining tail mass, 1 minus the emitted probability, is no longer above
\* maxTailProb or TermCap points are emitted, so the PMF never has more than
\* TermCap points.
C21_EnumerationTerminates ==
    /\ [](fn = "timeToKillDistribution" =>
             /\ pc \in {"enumerate", "done"} =>
                   /\ Len(pmf) <= TermCap
                   /\ hitProbability # Int2Rat(0) =>
                         tail = RatSub(Int2Rat(1), PmfMass(pmf, Len(pmf)))
             /\ pc = "done" => Len(result.pmf) <= TermCap)
    /\ [][pc = "enumerate" =>
             IF TailAboveMax(tail) /\ Len(pmf) < TermCap
             THEN /\ pc' = "enumerate"
                  /\ Len(pmf') = Len(pmf) + 1
                  /\ pmf'[Len(pmf')].attacks = hitsNeeded + Len(pmf)
             ELSE /\ pc' = "done"
                  /\ result'.pmf = pmf]_vars
    /\ <>(pc \in {"done", "thrown"})

\* an enumeration was stopped by the count of its points, the tail still
\* above maxTailProb
C21_Witness ==
    /\ fn = "timeToKillDistribution" /\ pc = "done"
    /\ Len(result.pmf) = TermCap
    /\ TailAboveMax(tail)

(***************************************************************************)
(* The statistics component.                                                *)
(***************************************************************************)
\* the text in the damage box matches neither grammar
TextIsInvalid == ~IsFixedText(damageInput) /\ ~IsDiceText(damageInput)

\* C22: after any edits of the damage text box and loads from local storage,
\* lastValidDamageInput matches one of the two damage grammars; typing a text
\* that matches neither leaves lastValidDamageInput unchanged, and on blur
\* raises the damage error flag.
C22_LastValidIsValid ==
    /\ [](mounted => (IsFixedText(lastValidDamageInput) \/ IsDiceText(lastValidDamageInput)))
    /\ [][(mounted /\ mounted' /\ damageInput' # damageInput /\ TextIsInvalid') =>
             lastValidDamageInput' = lastValidDamageInput]_vars
    /\ [][(mounted /\ focused /\ ~focused' /\ mounted' /\ TextIsInvalid) =>
             showDamageError']_vars

(***************************************************************************)
(* The chart.                                                               *)
(***************************************************************************)
\* C23: every PMF point (attacks a, probability q > 0) handed to the chart is
\* drawn as exactly one bar, labelled a and of height q * 100; no point of
\* positive probability is dropped and no bar carries another label than the
\* attack count of its point.
C23_OneBarPerPoint ==
    pc = "drawn" =>
        /\ \A i \in 1..Len(result.pmf) :
              result.pmf[i].prob.num > 0 =>
                  Cardinality({b \in 1..Len(bars) :
                                   bars[b].rounds = result.pmf[i].attacks}) = 1
        /\ \A b \in 1..Len(bars) :
              \E i \in 1..Len(result.pmf) :
                  /\ bars[b].rounds = result.pmf[i].attacks
                  /\ bars[b].count = RatMul(result.pmf[i].prob, Int2Rat(100))

(***************************************************************************)
(* The button-driven simulator (part_001): a form of character stats, and   *)
(* runSimulation, which simulates `iterations` combats one after another    *)
(* and shows their statistics.                                              *)
(***************************************************************************)
\* the limits of the form's number inputs
FormMinArmorClass == 1
FormMaxArmorClass == 25
FormMinAttackBonus == 0
FormMaxAttackBonus == 20
FormMinHitPoints == 1

\* the armor classes and attack bonuses entered in the form
FormArmorClasses == {FormMinArmorClass, FormMaxArmorClass}
FormAttackBonuses == {FormMinAttackBonus, FormMaxAttackBonus}

\* the damage texts entered in the form
FormDamageTexts ==
    {<<"1", "d", "2">>, <<"0", "d", "2">>, <<"x">>, <<"x", "1", "d", "1">>,
     <<"1", "d", "1", "+", "1">>}

\* diceString.match(/(\d+)d(\d+)(?:\+(\d+))?/): the leftmost match, each run of
\* digits as long as it can be; g3 is the empty text when the optional group
\* did not take part
rollDiceRegex(s) ==
    LET len == Len(s)
        starts == {a \in 1..len :
                      LET b == RunEnd(s, a, Digit)
                      IN  /\ s[a] \in Digit
                          /\ b + 1 <= len
                          /\ s[b] = "d"
                          /\ s[b + 1] \in Digit}
    IN  IF starts = {} THEN NoMatch
        ELSE LET a == Min(starts)
                 b == RunEnd(s, a, Digit)
                 c == RunEnd(s, b + 1, Digit)
                 hasModifier == c + 1 <= len /\ s[c] = "+" /\ s[c + 1] \in Digit
             IN  [matched |-> TRUE,
                  g1 |-> SubSeq(s, a, b - 1),
                  g2 |-> SubSeq(s, b + 1, c - 1),
                  g3 |-> IF hasModifier
                         THEN SubSeq(s, c + 1, RunEnd(s, c + 1, Digit) - 1)
                         ELSE <<>>]

\* total after numDice turns of `total += Math.floor(Math.random() * sides) + 1`
RECURSIVE rollDiceLoop(_, _, _)
rollDiceLoop(total, numDice, sides) ==
    IF numDice = 0 THEN {total}
    ELSE {t + f : t \in rollDiceLoop(total, numDice - 1, sides),
                  f \in IF sides = 0 THEN {1} ELSE 1..sides}

\* rollDice: the totals a roll of the text can give
rollDice(diceString) ==
    LET match == rollDiceRegex(diceString)
    IN  IF ~match.matched THEN {0}
        ELSE rollDiceLoop(parseInt(match.g3), parseInt(match.g1), parseInt(match.g2))

\* rollAttack: Math.floor(Math.random() * 20) + 1
rollAttack == 1..20

\* a counter that stops counting at RoundsCap
Counted(c) == MathMin(c + 1, RoundsCap)

\* simResults.reduce((sum, result) => sum + result[field], 0)
RECURSIVE SumOf(_, _, _)
SumOf(list, field, k) ==
    IF k = 0 THEN 0 ELSE SumOf(list, field, k - 1) + list[k][field]

\* new Array(Math.max(...rounds) + 1).fill(0), then one count per combat
roundsDistribution(list) ==
    LET longest == Max({list[k].rounds : k \in 1..Len(list)})
    IN  [r \in 0..longest |-> Cardinality({k \in 1..Len(list) : list[k].rounds = r})]

\* the statistics runSimulation computes from the combats
Statistics(list) ==
    LET totalRounds == SumOf(list, "rounds", Len(list))
        totalHits == SumOf(list, "hits", Len(list))
        damageSum == SumOf(list, "totalDamage", Len(list))
        totalAttacks == SumOf(list, "rounds", Len(list))
    IN  [averageRounds |-> Rat(totalRounds, iterations),
         hitRate |-> Rat(totalHits, totalAttacks),
         averageDamage |-> Rat(damageSum, totalRounds),
         totalSimulations |-> iterations,
         roundsDistribution |-> roundsDistribution(list)]

\* the simulator with its form filled in, before the button is clicked
SimulatorInit ==
    /\ characterStats \in [armorClass : FormArmorClasses,
                           hitPoints : FormMinHitPoints..MaxHitPoints,
                           attackBonus : FormAttackBonuses,
                           damage : FormDamageTexts]
    /\ iterations \in 1..MaxIterations
    /\ isRunning = FALSE
    /\ results = Null
    /\ simPc = "idle"
    /\ simResults = <<>>
    /\ CombatIdle

\* the first lines of simulateSingleCombat
EnterCombat ==
    /\ enemyHP' = characterStats.hitPoints
    /\ rounds' = 0
    /\ combatHits' = 0
    /\ totalDamage' = 0
    /\ attackRoll' = 0

\* a click on the button: runSimulation up to its first combat
runSimulation ==
    /\ simPc = "idle" /\ ~isRunning
    /\ isRunning' = TRUE
    /\ simResults' = <<>>
    /\ simPc' = "combat"
    /\ EnterCombat
    /\ UNCHANGED <<characterStats, iterations, results, parseVars, callVars,
                   componentVars, chartVars, combVars>>

\* one turn of `while (enemyHP > 0)`
simulateSingleCombat ==
    /\ simPc = "combat" /\ enemyHP > 0
    /\ rounds' = Counted(rounds)
    /\ \E d20 \in rollAttack :
          /\ attackRoll' = d20 + characterStats.attackBonus
          /\ IF attackRoll' >= characterStats.armorClass
             THEN \E dealt \in rollDice(characterStats.damage) :
                      /\ combatHits' = Counted(combatHits)
                      /\ totalDamage' = totalDamage + dealt
                      /\ enemyHP' = enemyHP - dealt
             ELSE UNCHANGED <<combatHits, totalDamage, enemyHP>>
    /\ UNCHANGED <<characterStats, iterations, isRunning, results, simPc, simResults,
                   parseVars, callVars, componentVars, chartVars, combVars>>

\* simulateSingleCombat returns, its result is pushed, and the for loop goes
\* on to the next combat or ends (the await in between changes no state)
ReturnCombat ==
    /\ simPc = "combat" /\ enemyHP <= 0
    /\ simResults' = Append(simResults, [rounds |-> rounds, hits |-> combatHits,
                                         totalDamage |-> totalDamage])
    /\ IF Len(simResults') < iterations
       THEN simPc' = "combat" /\ EnterCombat
       ELSE simPc' = "statistics" /\ UNCHANGED combatVars
    /\ UNCHANGED <<characterStats, iterations, isRunning, results, parseVars, callVars,
                   componentVars, chartVars, combVars>>

\* the statistics are shown, and `finally` resets isRunning
FinishSimulation ==
    /\ simPc = "statistics"
    /\ results' = Statistics(simResults)
    /\ isRunning' = FALSE
    /\ simPc' = "idle"
    /\ UNCHANGED <<characterStats, iterations, simResults, combatVars, parseVars,
                   callVars, componentVars, chartVars, combVars>>

\* a turn of the loop that takes hit points from the enemy
DamagingTurn == simulateSingleCombat /\ enemyHP' < enemyHP

\* the loop of simulateSingleCombat has a turn to take
TurnEnabled == simPc = "combat" /\ enemyHP > 0

\* some attack roll reaches the armor class and some damage roll is positive
DamagingTurnEnabled ==
    /\ TurnEnabled
    /\ \E d20 \in rollAttack : d20 + characterStats.attackBonus >= characterStats.armorClass
    /\ \E dealt \in rollDice(characterStats.damage) : dealt > 0

\* The simulator alone.  A started run goes on: the loop takes its turns
\* (weak fairness of simulateSingleCombat, its enabling condition written
\* out), a finished combat returns and the statistics are shown.  A roll that
\* has a chance to take hit points from the enemy is made sooner or later
\* (strong fairness of DamagingTurn, its enabling condition written out).
InitSimulator ==
    ParseIdle /\ CallIdle /\ ComponentIdle /\ ChartIdle /\ CombIdle /\ SimulatorInit
NextSimulator == runSimulation \/ simulateSingleCombat \/ ReturnCombat \/ FinishSimulation
SpecSimulator ==
    /\ InitSimulator
    /\ [][NextSimulator]_vars
    /\ ([]<>(~TurnEnabled) \/ []<><<simulateSingleCombat>>_vars)
    /\ (<>[](~DamagingTurnEnabled) \/ []<><<DamagingTurn>>_vars)
    /\ WF_vars(ReturnCombat)
    /\ WF_vars(FinishSimulation)

\* C24: every run of runSimulation completes and resets isRunning to false,
\* whatever the form allows as armor class, attack bonus and damage text: each
\* loop of simulateSingleCombat ends.
C24_RunCompletes == isRunning ~> ~isRunning

(***************************************************************************)
(* comb called on its own, one turn of its loop at a time.                  *)
(***************************************************************************)
\* comb is about to be called on n and k
CombInit ==
    /\ combArgs \in [n : -1..MaxN, k : -1..(MaxN + 1)]
    /\ combPc = "call"
    /\ combK = 0
    /\ combI = 0
    /\ combNum = 0
    /\ combDen = 0
    /\ combReturn = Null

\* comb up to its loop: the early return, or k = Math.min(k, n - k), num = 1,
\* den = 1
CombEnter ==
    /\ combPc = "call"
    /\ IF combArgs.k < 0 \/ combArgs.k > combArgs.n
       THEN /\ combReturn' = comb(combArgs.n, combArgs.k)
            /\ combPc' = "done"
            /\ UNCHANGED <<combK, combI, combNum, combDen>>
       ELSE /\ combK' = MathMin(combArgs.k, combArgs.n - combArgs.k)
            /\ combI' = 0
            /\ combNum' = combLoop(combArgs.n, combK', 0).num
            /\ combDen' = combLoop(combArgs.n, combK', 0).den
            /\ combPc' = "loop"
            /\ UNCHANGED combReturn
    /\ UNCHANGED <<combArgs, parseVars, callVars, componentVars, chartVars, simulatorVars>>

\* one turn of `for (let i = 1; i <= k; i++)`
CombTurn ==
    /\ combPc = "loop" /\ combI + 1 <= combK
    /\ combI' = combI + 1
    /\ combNum' = combLoop(combArgs.n, combK, combI').num
    /\ combDen' = combLoop(combArgs.n, combK, combI').den
    /\ UNCHANGED <<combArgs, combPc, combK, combReturn, parseVars, callVars,
                   componentVars, chartVars, simulatorVars>>

\* return num / den
CombReturn ==
    /\ combPc = "loop" /\ combI + 1 > combK
    /\ combReturn' = comb(combArgs.n, combArgs.k)
    /\ combPc' = "done"
    /\ UNCHANGED <<combArgs, combK, combI, combNum, combDen, parseVars, callVars,
                   componentVars, chartVars, simulatorVars>>

InitComb == ParseIdle /\ CallIdle /\ ComponentIdle /\ ChartIdle /\ SimulatorIdle /\ CombInit
NextComb == CombEnter \/ CombTurn \/ CombReturn
SpecComb == InitComb /\ [][NextComb]_vars

\* the binomial coefficient, by Pascal's rule
RECURSIVE Binomial(_, _)
Binomial(m, k) ==
    IF k < 0 \/ k > m THEN 0
    ELSE IF k = 0 \/ k = m THEN 1
    ELSE Binomial(m - 1, k - 1) + Binomial(m - 1, k)

\* C25: comb(n, k) returns the binomial coefficient of n and k when
\* 0 <= k <= n and 0 when k < 0 or k > n; after every turn of its loop the
\* running denominator is 1 and the running numerator is the coefficient
\* C(n - k + i, i), k being the loop's k.
C25_CombIsExact ==
    /\ combPc = "loop" =>
          /\ combDen = 1
          /\ combNum = Binomial(combArgs.n - combK + combI, combI)
    /\ combPc = "done" =>
          combReturn = Int2Rat(IF combArgs.k < 0 \/ combArgs.k > combArgs.n
                               THEN 0
                               ELSE Binomial(combArgs.n, combArgs.k))

\* comb has returned a coefficient whose running products needed reducing
C25_Witness ==
    /\ combPc = "done"
    /\ combArgs.n = MaxN /\ combArgs.k = 5
    /\ combK = 3 /\ combI = 3
    /\ combReturn = Int2Rat(56)

====
